---------------------------- MODULE Spec2Model ----------------------------
(***************************************************************************)
(* Order-lookup endpoint of fulfillment-tracking, in its two variants:     *)
(*   - the CORS-mode handler      (src/api/order-lookup.ts)                *)
(*   - the signed-proxy handler   (src/unnamed/part_000)                   *)
(*                                                                         *)
(* A JavaScript string is a sequence of characters.  A character is named  *)
(* by a TLA+ string: an ASCII character by itself ("a", "'", "\\"), a      *)
(* character outside ASCII by its code point ("u00E9", "uFF01", "u1F600"). *)
(* In origins and tokens, where only ',' and white space are ever looked   *)
(* at, one symbol may stand for a run of other characters                  *)
(* ("https://shop.example").                                               *)
(* An optional value (undefined / null in the source) is a tuple of length *)
(* 0 or 1: None or Some(v).                                                *)
(***************************************************************************)
EXTENDS Integers, Sequences, FiniteSets, TLC

None == <<>>
Some(v) == <<v>>

\* x || d of the source, for an optional string: undefined, null and '' are falsy.
OrElse(opt, d) ==
    IF opt = None \/ opt[1] = <<>> THEN d ELSE opt[1]

\* ------------------------------------------------------------------ bounds

\* Length, in hex digits, of the digest the model's HMAC produces (64 in Node).
DigestLen == 2
\* Longest query-parameter list the canonical-message specification draws.
MaxParams == 3

\* -------------------------------------------------------------- characters

\* The printable ASCII characters, in code order from 32.
Ascii ==
    << " ", "!", "\"", "#", "$", "%", "&", "'", "(", ")", "*", "+", ",", "-", ".", "/",
       "0", "1", "2", "3", "4", "5", "6", "7", "8", "9", ":", ";", "<", "=", ">", "?",
       "@", "A", "B", "C", "D", "E", "F", "G", "H", "I", "J", "K", "L", "M", "N", "O",
       "P", "Q", "R", "S", "T", "U", "V", "W", "X", "Y", "Z", "[", "\\", "]", "^", "_",
       "u0060", "a", "b", "c", "d", "e", "f", "g", "h", "i", "j", "k", "l", "m", "n", "o",
       "p", "q", "r", "s", "t", "u", "v", "w", "x", "y", "z", "{", "|", "}", "~" >>

\* seq.indexOf(c), counted from 1; 0 when c does not occur.
IndexIn(seq, c) ==
    IF \E i \in 1..Len(seq) : seq[i] = c
    THEN CHOOSE i \in 1..Len(seq) : seq[i] = c /\ \A j \in 1..(i - 1) : seq[j] # c
    ELSE 0

\* The Unicode code point of a character.
CodePoint(c) ==
    CASE c = "u00E9"  -> 233        \* e with acute accent
      [] c = "uFF01"  -> 65281      \* fullwidth exclamation mark
      [] c = "u1F600" -> 128512     \* an emoji, outside the basic plane
      [] c = "\t"     -> 9
      [] OTHER        -> 31 + IndexIn(Ascii, c)

\* UTF-16 code units of a character: what String.length counts and what the
\* default Array.prototype.sort compares.
Utf16(c) ==
    LET p == CodePoint(c) IN
    IF p < 65536 THEN << p >>
    ELSE << 55296 + ((p - 65536) \div 1024), 56320 + ((p - 65536) % 1024) >>

\* UTF-8 bytes of a character: what Buffer.from(s, 'utf8') holds.
Utf8(c) ==
    LET p == CodePoint(c) IN
    IF p < 128 THEN << p >>
    ELSE IF p < 2048 THEN << 192 + (p \div 64), 128 + (p % 64) >>
    ELSE IF p < 65536
         THEN << 224 + (p \div 4096), 128 + ((p \div 64) % 64), 128 + (p % 64) >>
    ELSE << 240 + (p \div 262144), 128 + ((p \div 4096) % 64),
            128 + ((p \div 64) % 64), 128 + (p % 64) >>

RECURSIVE Flatten(_)
Flatten(seqs) ==
    IF seqs = <<>> THEN <<>> ELSE Head(seqs) \o Flatten(Tail(seqs))

Utf16Units(s) == Flatten([i \in 1..Len(s) |-> Utf16(s[i])])
Utf8Bytes(s) == Flatten([i \in 1..Len(s) |-> Utf8(s[i])])

\* s.length
JsLength(s) == Len(Utf16Units(s))

IsSpace(c) == c \in {" ", "\t"}

ToLowerCh(c) ==
    LET p == CodePoint(c) IN
    IF c \in {"u00E9", "uFF01", "u1F600", "\t"} THEN c
    ELSE IF p >= 65 /\ p <= 90 THEN Ascii[p + 32 - 31] ELSE c

ToUpperCh(c) ==
    LET p == CodePoint(c) IN
    IF c \in {"u00E9", "uFF01", "u1F600", "\t"} THEN c
    ELSE IF p >= 97 /\ p <= 122 THEN Ascii[p - 32 - 31] ELSE c

\* String.prototype.toLowerCase / toUpperCase
ToLowerCase(s) == [i \in 1..Len(s) |-> ToLowerCh(s[i])]
ToUpperCase(s) == [i \in 1..Len(s) |-> ToUpperCh(s[i])]

RECURSIVE TrimStart(_)
TrimStart(s) ==
    IF s # <<>> /\ IsSpace(Head(s)) THEN TrimStart(Tail(s)) ELSE s

RECURSIVE TrimEnd(_)
TrimEnd(s) ==
    IF s # <<>> /\ IsSpace(s[Len(s)]) THEN TrimEnd(SubSeq(s, 1, Len(s) - 1)) ELSE s

\* String.prototype.trim
Trim(s) == TrimEnd(TrimStart(s))

\* s.replace(/c/g, rep) for a one-character pattern c.
ReplaceAll(s, c, rep) ==
    Flatten([i \in 1..Len(s) |-> IF s[i] = c THEN rep ELSE << s[i] >>])

\* s.split(sep) for a one-character separator: ''.split(',') is [''].
RECURSIVE Split(_, _)
Split(s, sep) ==
    LET i == IndexIn(s, sep) IN
    IF i = 0 THEN << s >>
    ELSE << SubSeq(s, 1, i - 1) >> \o Split(SubSeq(s, i + 1, Len(s)), sep)

\* arr.join(sep)
RECURSIVE Join(_, _)
Join(arr, sep) ==
    IF arr = <<>> THEN <<>>
    ELSE IF Len(arr) = 1 THEN arr[1]
    ELSE arr[1] \o sep \o Join(Tail(arr), sep)

\* arr.includes(x)
Includes(arr, x) == \E i \in 1..Len(arr) : arr[i] = x


\* ------------------------------------------- signed proxy: the signature

SignatureKey == << "s", "i", "g", "n", "a", "t", "u", "r", "e" >>

\* URLSearchParams.get(k): the first value given for k, null when there is none.
\* A parameter list is a sequence of << key, value >> pairs in URL order.
RECURSIVE Get(_, _)
Get(params, k) ==
    IF params = <<>> THEN None
    ELSE IF Head(params)[1] = k THEN Some(Head(params)[2])
    ELSE Get(Tail(params), k)

\* Lexicographic order of two sequences of numbers; a proper prefix is smaller.
RECURSIVE SeqLess(_, _)
SeqLess(a, b) ==
    IF b = <<>> THEN FALSE
    ELSE IF a = <<>> THEN TRUE
    ELSE IF Head(a) # Head(b) THEN Head(a) < Head(b)
    ELSE SeqLess(Tail(a), Tail(b))

\* A sort by the bytes of the UTF-8 encoding instead, as a byte-wise comparator would
\* make it: not what line 34 does.
ByteLess(a, b) == SeqLess(Utf8Bytes(a), Utf8Bytes(b))

\* The comparison Array.prototype.sort() makes without a comparator: by UTF-16
\* code units.
JsLess(a, b) == SeqLess(Utf16Units(a), Utf16Units(b))

\* keys.sort(): insertion of each key into the sorted rest.
RECURSIVE InsertSorted(_, _)
InsertSorted(k, sorted) ==
    IF sorted = <<>> THEN << k >>
    ELSE IF JsLess(k, Head(sorted)) THEN << k >> \o sorted
    ELSE << Head(sorted) >> \o InsertSorted(k, Tail(sorted))

RECURSIVE SortKeys(_)
SortKeys(keys) ==
    IF keys = <<>> THEN <<>> ELSE InsertSorted(Head(keys), SortKeys(Tail(keys)))

\* The loop of lines 24-30: a Map from key to the array of its values; a Map keeps
\* its keys in insertion order.  map is a sequence of [k, arr] entries.
MapSet(map, k, arr) ==
    IF \E i \in 1..Len(map) : map[i].k = k
    THEN [i \in 1..Len(map) |-> IF map[i].k = k THEN [k |-> k, arr |-> arr] ELSE map[i]]
    ELSE Append(map, [k |-> k, arr |-> arr])

MapGet(map, k) ==
    IF \E i \in 1..Len(map) : map[i].k = k
    THEN (CHOOSE e \in {map[i] : i \in 1..Len(map)} : e.k = k).arr
    ELSE <<>>

RECURSIVE BuildMap(_, _)
BuildMap(params, map) ==
    IF params = <<>> THEN map
    ELSE LET k == Head(params)[1]
             v == Head(params)[2]
         IN IF k = SignatureKey THEN BuildMap(Tail(params), map)
            ELSE BuildMap(Tail(params), MapSet(map, k, Append(MapGet(map, k), v)))

MapKeys(map) == [i \in 1..Len(map) |-> map[i].k]

\* Lines 33-36: the message the digest is taken of.
CanonicalMessage(params) ==
    LET map    == BuildMap(params, <<>>)
        sorted == SortKeys(MapKeys(map))
    IN Join([i \in 1..Len(sorted) |->
                sorted[i] \o << "=" >> \o Join(MapGet(map, sorted[i]), << "," >>)],
            <<>>)

HexDigits ==
    << "0", "1", "2", "3", "4", "5", "6", "7", "8", "9", "a", "b", "c", "d", "e", "f" >>

RECURSIVE Pow16(_)
Pow16(n) == IF n = 0 THEN 1 ELSE 16 * Pow16(n - 1)

\* n in lower-case hex, in exactly len digits.
RECURSIVE ToHex(_, _)
ToHex(n, len) ==
    IF len = 0 THEN <<>>
    ELSE Append(ToHex(n \div 16, len - 1), HexDigits[(n % 16) + 1])

RECURSIVE Mix(_, _)
Mix(h, bytes) ==
    IF bytes = <<>> THEN h ELSE Mix((h * 31 + Head(bytes)) % 65521, Tail(bytes))

\* crypto.createHmac('sha256', secret).update(message).digest('hex'): a keyed digest
\* in lower-case hex of fixed length.  SHA-256 is replaced by a keyed checksum: what
\* the handler relies on is that the digest is a function of secret and message and
\* is DigestLen hex digits long.
Hmac(secret, message) ==
    ToHex(Mix(Mix(7, Utf8Bytes(secret)), << 0 >> \o Utf8Bytes(message)) % Pow16(DigestLen),
          DigestLen)

\* timingSafeEqual of lines 10-13.  crypto.timingSafeEqual throws a RangeError when
\* its two buffers differ in byte length.  The result is "true", "false" or "throw".
TimingSafeEqual(a, b) ==
    IF JsLength(a) # JsLength(b) THEN "false"
    ELSE IF Len(Utf8Bytes(a)) # Len(Utf8Bytes(b)) THEN "throw"
    ELSE IF Utf8Bytes(a) = Utf8Bytes(b) THEN "true" ELSE "false"

\* verifyProxySignature of lines 16-40: "true", "false" or "throw".
VerifyProxySignature(params, API_SECRET) ==
    LET provided == OrElse(Get(params, SignatureKey), <<>>) IN
    IF provided = <<>> \/ API_SECRET = <<>> THEN "false"
    ELSE TimingSafeEqual(Hmac(API_SECRET, CanonicalMessage(params)), provided)

\* ------------------------------------------------- query and status text

\* esc of both handlers: s.replace(/'/g, "\\'")
Esc(s) == ReplaceAll(s, "'", << "\\", "'" >>)

\* orderRaw.replace(/^#/, '')
StripHash(s) == IF s # <<>> /\ Head(s) = "#" THEN Tail(s) ELSE s

\* `email:'${esc(emailRaw)}' AND name:'${esc(orderName)}'`
BuildQuery(emailRaw, orderRaw) ==
    << "e", "m", "a", "i", "l", ":", "'" >> \o Esc(emailRaw)
        \o << "'", " ", "A", "N", "D", " ", "n", "a", "m", "e", ":", "'" >>
        \o Esc(StripHash(orderRaw)) \o << "'" >>

\* s.replace(re, m => m.toUpperCase()) for a global regular expression: lens[i] is
\* the length of the match that starts at position i, 0 when none starts there.
\* The scan goes left to right and resumes behind each match.
RECURSIVE UpperMatches(_, _, _)
UpperMatches(s, i, lens) ==
    IF i > Len(s) THEN <<>>
    ELSE IF lens[i] > 0
         THEN ToUpperCase(SubSeq(s, i, i + lens[i] - 1))
                  \o UpperMatches(s, i + lens[i], lens)
         ELSE << s[i] >> \o UpperMatches(s, i + 1, lens)

At(s, i) == IF i >= 1 /\ i <= Len(s) THEN Some(s[i]) ELSE None

\* /(^|\s)\S/ of the signed-proxy handler: a non-space character at the start, or a
\* white-space character followed by a non-space character.
ProxyMatchLen(s, i) ==
    IF i = 1 /\ ~IsSpace(s[1]) THEN 1
    ELSE IF IsSpace(s[i]) /\ At(s, i + 1) # None /\ ~IsSpace(s[i + 1]) THEN 2
    ELSE 0

\* /(^|\\s)\\S/ of the CORS handler: in a regular-expression literal \\ is a literal
\* backslash, so this is: backslash, 'S' at the start, or backslash, 's', backslash,
\* 'S' anywhere.
CorsMatchLen(s, i) ==
    IF i = 1 /\ At(s, 1) = Some("\\") /\ At(s, 2) = Some("S") THEN 2
    ELSE IF /\ At(s, i) = Some("\\") /\ At(s, i + 1) = Some("s")
            /\ At(s, i + 2) = Some("\\") /\ At(s, i + 3) = Some("S") THEN 4
    ELSE 0

\* titleCase of src/unnamed/part_000
ProxyTitleCase(s) ==
    LET t == ToLowerCase(ReplaceAll(s, "_", << " " >>)) IN
    UpperMatches(t, 1, [i \in 1..Len(t) |-> ProxyMatchLen(t, i)])

\* titleCase of src/api/order-lookup.ts
CorsTitleCase(s) ==
    LET t == ToLowerCase(ReplaceAll(s, "_", << " " >>)) IN
    UpperMatches(t, 1, [i \in 1..Len(t) |-> CorsMatchLen(t, i)])

\* ------------------------------------------------------- CORS mode: gates

\* Number(text) for the decimal literals the model configures: digits with at most
\* one fractional digit, read in tenths; Some(n) is the number n/10, None is NaN.
IsDigit(c) == c \in {"0", "1", "2", "3", "4", "5", "6", "7", "8", "9"}

RECURSIVE DigitsValue(_)
DigitsValue(s) ==
    IF s = <<>> THEN 0
    ELSE 10 * DigitsValue(SubSeq(s, 1, Len(s) - 1)) + (CodePoint(s[Len(s)]) - 48)

ToNumber(text) ==
    LET t   == Trim(text)
        dot == IndexIn(t, ".")
        int == IF dot = 0 THEN t ELSE SubSeq(t, 1, dot - 1)
        fra == IF dot = 0 THEN <<>> ELSE SubSeq(t, dot + 1, Len(t))
    IN IF t = <<>> THEN Some(0)
       ELSE IF /\ \A i \in 1..Len(int) : IsDigit(int[i])
               /\ \A i \in 1..Len(fra) : IsDigit(fra[i])
               /\ Len(int) + Len(fra) > 0
               /\ Len(fra) <= 1
            THEN Some(10 * DigitsValue(int) + DigitsValue(fra))
       ELSE None

\* a < b on numbers: false when either is NaN.
NumLess(a, b) == a # None /\ b # None /\ a[1] < b[1]

\* line 7: (process.env.ALLOWED_ORIGINS || '').split(',').map(s => s.trim())
ALLOWED(env) ==
    LET parts == Split(OrElse(env.ALLOWED_ORIGINS, <<>>), ",") IN
    [i \in 1..Len(parts) |-> Trim(parts[i])]

\* line 8
RECAPTCHA_SEC(env) == OrElse(env.RECAPTCHA_SECRET, <<>>)

\* line 9: Number(process.env.RECAPTCHA_MIN_SCORE || '0.5')
MIN_SCORE(env) == ToNumber(OrElse(env.RECAPTCHA_MIN_SCORE, << "0", ".", "5" >>))

\* setCORS, lines 11-16: the headers set on the response.
SetCORS(env, origin) ==
    [ acao |-> IF origin # <<>> /\ Includes(ALLOWED(env), origin) THEN Some(origin) ELSE None,
      vary |-> TRUE ]

\* The verdict without line 29: the score is not looked at.
RecaptchaVerdict_IgnoresScore(j, min) == j.success = Some(TRUE)

\* Lines 28-30 of verifyRecaptcha: the verdict on the provider's parsed reply j.
\* j.success is Some(TRUE), Some(FALSE) or absent; j.score is Some(n), in tenths, or
\* absent.
RecaptchaVerdict(j, min) ==
    IF j.success # Some(TRUE) THEN FALSE
    ELSE IF j.score # None /\ NumLess(j.score, min) THEN FALSE
    ELSE TRUE

\* -------------------------------------------------------------- responses

NoResponse ==
    [ status |-> 0, type |-> "none", error |-> "", found |-> FALSE,
      orderName |-> <<>>, displayStatus |-> <<>> ]

\* res.status(204).end()
EndRes(status) == [NoResponse EXCEPT !.status = status, !.type = "empty"]

\* res.status(status).json({ error: msg })
ErrorRes(status, msg) ==
    [NoResponse EXCEPT !.status = status, !.type = "error", !.error = msg]

\* res.status(200).json({ found: false })
NotFoundRes == [NoResponse EXCEPT !.status = 200, !.type = "json"]

\* res.status(200).json({ found: true, orderName, displayStatus, ... })
FoundRes(name, display) ==
    [NoResponse EXCEPT !.status = 200, !.type = "json", !.found = TRUE,
                       !.orderName = name, !.displayStatus = display]

\* The message of the error fetch throws on a network failure, of the SyntaxError
\* resp.json() throws on a body that is not JSON, and of the RangeError of
\* crypto.timingSafeEqual.
FetchFailed == "fetch failed"
BadJson == "Unexpected token < in JSON at position 0"
ByteLengthError == "Input buffers must have the same byte length"

\* What a handler has done when it next waits or has answered: next is "done" (res is
\* the response), "captcha" (the provider was called) or "backend" (the backend was
\* called with query q); stage is the stage it is in.
Answer(stage, res) == [next |-> "done", stage |-> stage, res |-> res, q |-> None]
CallCaptcha == [next |-> "captcha", stage |-> "captcha", res |-> NoResponse, q |-> None]
CallBackend(q) == [next |-> "backend", stage |-> "backend", res |-> NoResponse, q |-> Some(q)]

\* data?.data?.orders?.edges?.[0]?.node of both handlers: the first node of the
\* parsed reply, None when any link of the chain is missing.  The HTTP status of the
\* reply and its errors member are not looked at.
FirstNode(reply) ==
    IF reply.data = None THEN None
    ELSE IF reply.data[1] = <<>> THEN None
    ELSE Some(reply.data[1][1])

Unknown == << "U", "N", "K", "N", "O", "W", "N" >>

\* Lines 84-96 of the CORS handler, from the reply of the backend on.
CorsProject(reply) ==
    IF reply.kind = "neterr" THEN Answer("backend", ErrorRes(500, FetchFailed))
    ELSE IF reply.kind = "badjson" THEN Answer("backend", ErrorRes(500, BadJson))
    ELSE LET node == FirstNode(reply) IN
         IF node = None THEN Answer("projection", NotFoundRes)
         ELSE Answer("projection",
                     FoundRes(node[1].name,
                              CorsTitleCase(OrElse(node[1].displayFulfillmentStatus, Unknown))))

\* Lines 99-111 of the signed-proxy handler.
ProxyProject(reply) ==
    IF reply.kind = "neterr" THEN Answer("backend", ErrorRes(500, FetchFailed))
    ELSE IF reply.kind = "badjson" THEN Answer("backend", ErrorRes(500, BadJson))
    ELSE LET node == FirstNode(reply) IN
         IF node = None THEN Answer("projection", NotFoundRes)
         ELSE Answer("projection",
                     FoundRes(node[1].name,
                              ProxyTitleCase(OrElse(node[1].displayFulfillmentStatus, Unknown))))

\* ------------------------------------------------ the handlers, to the first await

\* Lines 58-82 of the CORS handler: the query is built and the backend called.
CorsQuery(r) ==
    LET orderRaw == Trim(OrElse(Get(r.params, << "o", "r", "d", "e", "r" >>), <<>>))
        emailRaw == ToLowerCase(Trim(OrElse(Get(r.params, << "e", "m", "a", "i", "l" >>), <<>>)))
    IN CallBackend(BuildQuery(emailRaw, orderRaw))

\* Lines 38-55 of the CORS handler, up to the first await.  verifyRecaptcha returns
\* true without a call when no secret is configured (line 19).
CorsBegin(e, r) ==
    LET origin   == OrElse(r.origin, <<>>)
        orderRaw == Trim(OrElse(Get(r.params, << "o", "r", "d", "e", "r" >>), <<>>))
        emailRaw == ToLowerCase(Trim(OrElse(Get(r.params, << "e", "m", "a", "i", "l" >>), <<>>)))
    IN IF r.method = "OPTIONS" THEN Answer("preflight", EndRes(204))
       ELSE IF ~Includes(ALLOWED(e), origin)
            THEN Answer("origin", ErrorRes(403, "Origin not allowed"))
       ELSE IF orderRaw = <<>> \/ emailRaw = <<>>
            THEN Answer("validation", ErrorRes(400, "Missing order or email"))
       ELSE IF OrElse(e.SHOPIFY_ADMIN_API_ACCESS_TOKEN, <<>>) = <<>>
               \/ OrElse(e.SHOPIFY_SHOP, <<>>) = <<>>
            THEN Answer("config", ErrorRes(500, "Server not configured"))
       ELSE IF RECAPTCHA_SEC(e) = <<>> THEN CorsQuery(r)
       ELSE CallCaptcha

\* Lines 27-30 and 56-82: from the provider's reply on.
CorsAfterCaptcha(e, r, reply) ==
    IF reply.kind = "neterr" THEN Answer("captcha", ErrorRes(500, FetchFailed))
    ELSE IF reply.kind = "badjson" THEN Answer("captcha", ErrorRes(500, BadJson))
    ELSE IF ~RecaptchaVerdict(reply, MIN_SCORE(e))
         THEN Answer("captcha", ErrorRes(400, "Captcha failed"))
    ELSE CorsQuery(r)

\* The signed-proxy handler with the shop check of lines 61-63 moved before the
\* validation of lines 58-60.
ProxyBegin_TenantFirst(e, r) ==
    LET verdict  == VerifyProxySignature(r.params, OrElse(e.SHOPIFY_API_SECRET, <<>>))
        shop     == OrElse(Get(r.params, << "s", "h", "o", "p" >>), <<>>)
        orderRaw == Trim(OrElse(Get(r.params, << "o", "r", "d", "e", "r" >>), <<>>))
        emailRaw == ToLowerCase(Trim(OrElse(Get(r.params, << "e", "m", "a", "i", "l" >>), <<>>)))
        allowed  == OrElse(e.SHOPIFY_SHOP, <<>>)
    IN IF verdict = "throw" THEN Answer("signature", ErrorRes(500, ByteLengthError))
       ELSE IF verdict = "false"
            THEN Answer("signature", ErrorRes(401, "Invalid signature"))
       ELSE IF allowed # <<>> /\ shop # allowed
            THEN Answer("tenant", ErrorRes(403, "Shop not allowed"))
       ELSE IF orderRaw = <<>> \/ emailRaw = <<>>
            THEN Answer("validation", ErrorRes(400, "Missing order or email"))
       ELSE IF OrElse(e.SHOPIFY_ADMIN_API_ACCESS_TOKEN, <<>>) = <<>>
            THEN Answer("config", ErrorRes(500, "Missing ADMIN API token on server"))
       ELSE CallBackend(BuildQuery(emailRaw, orderRaw))

\* Lines 47-97 of the signed-proxy handler, up to the first await.
ProxyBegin(e, r) ==
    LET verdict  == VerifyProxySignature(r.params, OrElse(e.SHOPIFY_API_SECRET, <<>>))
        shop     == OrElse(Get(r.params, << "s", "h", "o", "p" >>), <<>>)
        orderRaw == Trim(OrElse(Get(r.params, << "o", "r", "d", "e", "r" >>), <<>>))
        emailRaw == ToLowerCase(Trim(OrElse(Get(r.params, << "e", "m", "a", "i", "l" >>), <<>>)))
        allowed  == OrElse(e.SHOPIFY_SHOP, <<>>)
    IN IF verdict = "throw" THEN Answer("signature", ErrorRes(500, ByteLengthError))
       ELSE IF verdict = "false"
            THEN Answer("signature", ErrorRes(401, "Invalid signature"))
       ELSE IF orderRaw = <<>> \/ emailRaw = <<>>
            THEN Answer("validation", ErrorRes(400, "Missing order or email"))
       ELSE IF allowed # <<>> /\ shop # allowed
            THEN Answer("tenant", ErrorRes(403, "Shop not allowed"))
       ELSE IF OrElse(e.SHOPIFY_ADMIN_API_ACCESS_TOKEN, <<>>) = <<>>
            THEN Answer("config", ErrorRes(500, "Missing ADMIN API token on server"))
       ELSE CallBackend(BuildQuery(emailRaw, orderRaw))

\* ------------------------------------------------------------------ state

VARIABLES
    handler,        \* "cors" | "proxy": the variant deployed; "sig": only the message is built
    env,            \* process.env, read once when the module is loaded
    req,            \* the request: method, Origin header, query parameters
    pc,             \* "start" | "captcha" | "backend" | "done": where the handler is
    stage,          \* the stage the handler reached last
    res,            \* the response sent (NoResponse before)
    headers,        \* the CORS headers set on the response
    sent,           \* how many responses were sent
    captchaCalls,   \* how many calls the CAPTCHA provider got
    backendCalls,   \* how many calls the backend got
    captchaReply,   \* Some(reply of the provider), once it came
    backendReply,   \* Some(reply of the backend), once it came
    q,              \* Some(filter expression sent to the backend)
    message         \* Some(canonical message), once verifyProxySignature built it

vars ==
    << handler, env, req, pc, stage, res, headers, sent, captchaCalls, backendCalls,
       captchaReply, backendReply, q, message >>

\* ----------------------------------------------------------------- inputs

OrderKey == << "o", "r", "d", "e", "r" >>
EmailKey == << "e", "m", "a", "i", "l" >>
ShopKey == << "s", "h", "o", "p" >>
CaptchaKey == << "c", "a", "p", "t", "c", "h", "a", "T", "o", "k", "e", "n" >>

\* One optional parameter as a list of pairs.
Param(k, opt) == IF opt = None THEN <<>> ELSE << << k, opt[1] >> >>

OriginShop == << "https://shop.example" >>
OriginWww == << "https://www.example" >>
OriginEvil == << "https://evil.example" >>

\* Values of ALLOWED_ORIGINS: unset, empty, one origin, two origins, a trailing comma.
AllowedOriginsValues ==
    { None, Some(<<>>), Some(OriginShop),
      Some(OriginShop \o << ",", " " >> \o OriginWww),
      Some(OriginShop \o << "," >>) }

\* Origin headers: absent, listed, not listed, a listed origin with a suffix.
OriginValues ==
    { None, Some(OriginShop), Some(OriginEvil), Some(OriginShop \o << ".evil.example" >>) }

OrderValues ==
    { None, Some(<< " " >>), Some(<< " ", "#", "1", " " >>), Some(<< "1", "'", "2" >>),
      Some(<< "x", "\\" >>) }

EmailValues ==
    { None, Some(<< " ", "A", "@", "b", " " >>), Some(<< "a", "'", "@", "b" >>),
      Some(<< "\\", "'", "@", "b" >>) }

CaptchaTokenValues == { None, Some(<< " " >>), Some(<< "token" >>) }

\* RECAPTCHA_SECRET with RECAPTCHA_MIN_SCORE: each minimum with the number it is meant
\* to configure, in tenths (None: not a number).
MinScoreTexts ==
    { [text |-> None, tenths |-> Some(5)],
      [text |-> Some(<< "0", ".", "3" >>), tenths |-> Some(3)],
      [text |-> Some(<< "0", ".", "7" >>), tenths |-> Some(7)],
      [text |-> Some(<< "h", "i", "g", "h" >>), tenths |-> None] }

CaptchaConfigs ==
    { [secret |-> None, min |-> None] }
        \cup { [secret |-> Some(<< "recaptcha-secret" >>), min |-> m.text] : m \in MinScoreTexts }

AdminToken == << "shpat" >>
ShopAllowed == << "s", "h", "o", "p" >>
ShopOther == << "e", "v", "i", "l" >>
ApiSecret == << "k", "e", "y" >>

NoEnv ==
    [ ALLOWED_ORIGINS |-> None, RECAPTCHA_SECRET |-> None, RECAPTCHA_MIN_SCORE |-> None,
      SHOPIFY_ADMIN_API_ACCESS_TOKEN |-> None, SHOPIFY_SHOP |-> None,
      SHOPIFY_API_SECRET |-> None ]

\* Token and shop: both set, token unset, shop unset.
BackendConfigs ==
    { [token |-> Some(AdminToken), shop |-> Some(ShopAllowed)],
      [token |-> None, shop |-> Some(ShopAllowed)],
      [token |-> Some(AdminToken), shop |-> None] }

CorsEnvs ==
    { [NoEnv EXCEPT !.ALLOWED_ORIGINS = a, !.RECAPTCHA_SECRET = c.secret,
                    !.RECAPTCHA_MIN_SCORE = c.min,
                    !.SHOPIFY_ADMIN_API_ACCESS_TOKEN = b.token, !.SHOPIFY_SHOP = b.shop] :
        a \in AllowedOriginsValues, c \in CaptchaConfigs, b \in BackendConfigs }

CorsRequests ==
    { [method |-> m, origin |-> o,
       params |-> Param(OrderKey, ord) \o Param(EmailKey, em) \o Param(CaptchaKey, tok)] :
        m \in {"GET", "OPTIONS"}, o \in OriginValues, ord \in OrderValues,
        em \in EmailValues, tok \in CaptchaTokenValues }

ProxyEnvs ==
    { [NoEnv EXCEPT !.SHOPIFY_API_SECRET = k, !.SHOPIFY_ADMIN_API_ACCESS_TOKEN = b.token,
                    !.SHOPIFY_SHOP = b.shop] :
        k \in {None, Some(ApiSecret)}, b \in BackendConfigs }

\* The signatures a request may carry, given the digest d the proxy computes for it:
\* none, empty, d, d cut short, d with a digit more, d with one digit changed, and d
\* with one digit replaced by a two-byte character.
OtherDigit(c) == IF c = "0" THEN "1" ELSE "0"

SignatureValues(d) ==
    { None, Some(<<>>), Some(d), Some(SubSeq(d, 1, Len(d) - 1)), Some(d \o << "0" >>) }
        \cup { Some([d EXCEPT ![i] = OtherDigit(d[i])]) : i \in 1..Len(d) }
        \cup { Some([d EXCEPT ![i] = "u00E9"]) : i \in 1..Len(d) }

\* The parameters the storefront sends through the proxy, before the proxy signs them.
ProxyBases ==
    { Param(ShopKey, sh) \o Param(OrderKey, ord) \o Param(EmailKey, em) :
        sh \in {None, Some(ShopAllowed), Some(ShopOther)},
        ord \in OrderValues, em \in EmailValues }

ProxyRequests ==
    UNION { { [method |-> "GET", origin |-> None, params |-> base \o Param(SignatureKey, sig)] :
                sig \in SignatureValues(Hmac(ApiSecret, CanonicalMessage(base))) } :
            base \in ProxyBases }

\* Replies of the CAPTCHA provider: the call fails, the body is not JSON, or the body
\* is { success?, score? } with the score in tenths.
ProviderReplies ==
    { [kind |-> k, success |-> None, score |-> None] : k \in {"neterr", "badjson"} }
        \cup { [kind |-> "json", success |-> ok, score |-> sc] :
                 ok \in {None, Some(TRUE), Some(FALSE)},
                 sc \in {None, Some(2), Some(3), Some(5), Some(7), Some(8)} }

Unfulfilled == << "U", "N", "F", "U", "L", "F", "I", "L", "L", "E", "D" >>
InTransit == << "I", "N", "_", "T", "R", "A", "N", "S", "I", "T" >>

OrderNodes ==
    { [name |-> << "#", "1" >>, displayFulfillmentStatus |-> st] :
        st \in {None, Some(<<>>), Some(Unfulfilled), Some(InTransit)} }

\* Replies of the backend: the call fails, the body is not JSON, or the body is JSON
\* with HTTP status http, an errors member or not, and data.orders.edges or no data.
BackendReplies ==
    { [kind |-> k, http |-> 502, errors |-> FALSE, data |-> None] : k \in {"neterr", "badjson"} }
        \cup { [kind |-> "json", http |-> 401, errors |-> TRUE, data |-> None],
               [kind |-> "json", http |-> 200, errors |-> TRUE, data |-> None],
               [kind |-> "json", http |-> 200, errors |-> FALSE, data |-> None],
               [kind |-> "json", http |-> 200, errors |-> FALSE, data |-> Some(<<>>)] }
        \cup { [kind |-> "json", http |-> 200, errors |-> FALSE, data |-> Some(<< n >>)] :
                 n \in OrderNodes }

\* Query-parameter lists of up to MaxParams pairs, for the canonical message alone.
SigKeys == { << "a" >>, << "uFF01" >>, << "u1F600" >>, SignatureKey }
SigValues == { <<>>, << "1" >>, << "2" >> }

RECURSIVE ParamLists(_)
ParamLists(n) ==
    IF n = 0 THEN { <<>> }
    ELSE LET shorter == ParamLists(n - 1) IN
         shorter \cup { Append(l, << k, v >>) : l \in shorter, k \in SigKeys, v \in SigValues }

\* ------------------------------------------------------------------ actions

Start(h, e, r) ==
    /\ handler = h
    /\ env = e
    /\ req = r
    /\ pc = "start"
    /\ stage = "received"
    /\ res = NoResponse
    /\ headers = [acao |-> None, vary |-> FALSE]
    /\ sent = 0
    /\ captchaCalls = 0
    /\ backendCalls = 0
    /\ captchaReply = None
    /\ backendReply = None
    /\ q = None
    /\ message = None

Init ==
    \/ \E e \in CorsEnvs, r \in CorsRequests : Start("cors", e, r)
    \/ \E e \in ProxyEnvs, r \in ProxyRequests : Start("proxy", e, r)

\* The handler runs to its next await or to its response.
Continue(o) ==
    /\ pc' = o.next
    /\ stage' = o.stage
    /\ res' = o.res
    /\ sent' = IF o.next = "done" THEN sent + 1 ELSE sent
    /\ captchaCalls' = IF o.next = "captcha" THEN captchaCalls + 1 ELSE captchaCalls
    /\ backendCalls' = IF o.next = "backend" THEN backendCalls + 1 ELSE backendCalls
    /\ q' = IF o.q # None THEN o.q ELSE q

\* CORS handler, lines 37-55 (and on to line 82 when no CAPTCHA is configured).
CorsStart ==
    /\ handler = "cors"
    /\ pc = "start"
    /\ headers' = SetCORS(env, OrElse(req.origin, <<>>))
    /\ Continue(CorsBegin(env, req))
    /\ UNCHANGED << handler, env, req, captchaReply, backendReply, message >>

\* CORS handler: the provider answers (lines 22-30, 56-82).
CorsCaptchaReply(reply) ==
    /\ handler = "cors"
    /\ pc = "captcha"
    /\ captchaReply' = Some(reply)
    /\ Continue(CorsAfterCaptcha(env, req, reply))
    /\ UNCHANGED << handler, env, req, headers, backendReply, message >>

\* CORS handler: the backend answers (lines 75-97).
CorsBackendReply(reply) ==
    /\ handler = "cors"
    /\ pc = "backend"
    /\ backendReply' = Some(reply)
    /\ Continue(CorsProject(reply))
    /\ UNCHANGED << handler, env, req, headers, captchaReply, message >>

\* Signed-proxy handler, lines 46-97.  The message is built only when a signature
\* and a secret are there (line 21).
ProxyStart ==
    /\ handler = "proxy"
    /\ pc = "start"
    /\ message' = IF OrElse(Get(req.params, SignatureKey), <<>>) = <<>>
                     \/ OrElse(env.SHOPIFY_API_SECRET, <<>>) = <<>>
                  THEN None ELSE Some(CanonicalMessage(req.params))
    /\ Continue(ProxyBegin(env, req))
    /\ UNCHANGED << handler, env, req, headers, captchaReply, backendReply >>

\* Signed-proxy handler: the backend answers (lines 90-112).
ProxyBackendReply(reply) ==
    /\ handler = "proxy"
    /\ pc = "backend"
    /\ backendReply' = Some(reply)
    /\ Continue(ProxyProject(reply))
    /\ UNCHANGED << handler, env, req, headers, captchaReply, message >>

Next ==
    \/ CorsStart
    \/ \E reply \in ProviderReplies : CorsCaptchaReply(reply)
    \/ \E reply \in BackendReplies : CorsBackendReply(reply)
    \/ ProxyStart
    \/ \E reply \in BackendReplies : ProxyBackendReply(reply)

Spec == Init /\ [][Next]_vars

\* The canonical message alone, lines 23-36 of verifyProxySignature, applied to any
\* parameter list.
InitSig ==
    \E l \in ParamLists(MaxParams) :
        Start("sig", NoEnv, [method |-> "GET", origin |-> None, params |-> l])

BuildMessage ==
    /\ handler = "sig"
    /\ pc = "start"
    /\ message' = Some(CanonicalMessage(req.params))
    /\ pc' = "done"
    /\ UNCHANGED << handler, env, req, stage, res, headers, sent, captchaCalls,
                    backendCalls, captchaReply, backendReply, q >>

NextSig == BuildMessage

SpecSig == InitSig /\ [][NextSig]_vars

\* ------------------------------------------------------------------ claims

IsSet(opt) == opt # None /\ opt[1] # <<>>

\* The request got past the first gate of its handler.
PastTrust == pc # "start" /\ stage \notin {"preflight", "origin", "signature"}

\* The request got past every gate before the CAPTCHA stage of the CORS handler.
AtCaptchaStage == pc # "start" /\ stage \in {"captcha", "backend", "projection"}

\* C1: in the CORS handler a request other than OPTIONS gets past the origin check
\* only if its Origin header is present and equals an entry of the allowlist; any
\* other request is answered 403 with no call to the CAPTCHA provider or the backend;
\* an allowed request gets exactly its own origin in Access-Control-Allow-Origin, and
\* every response carries Vary: Origin.
C1_OriginGate ==
    (handler = "cors" /\ req.method # "OPTIONS" /\ pc # "start") =>
        LET listed == req.origin # None /\ Includes(ALLOWED(env), req.origin[1]) IN
        /\ PastTrust => listed
        /\ ~listed => /\ pc = "done"
                      /\ res.status = 403
                      /\ captchaCalls = 0
                      /\ backendCalls = 0
        /\ listed => headers.acao = req.origin
        /\ headers.acao # None => headers.acao = req.origin
        /\ headers.vary

\* C2: in the signed-proxy handler, unless the secret is set and the signature is
\* present, not empty and byte for byte the hex digest of the canonical message, the
\* answer is 401 'Invalid signature' and the backend is not called; only a request
\* whose signature equals the digest gets past this stage.
C2_SignatureGate ==
    (handler = "proxy" /\ pc # "start") =>
        LET provided == Get(req.params, SignatureKey)
            secret   == env.SHOPIFY_API_SECRET
            valid    == /\ IsSet(secret)
                        /\ IsSet(provided)
                        /\ Utf8Bytes(provided[1])
                             = Utf8Bytes(Hmac(secret[1], CanonicalMessage(req.params)))
        IN /\ PastTrust => valid
           /\ ~valid => /\ pc = "done"
                        /\ res = ErrorRes(401, "Invalid signature")
                        /\ backendCalls = 0

\* C4: in the CORS handler with a CAPTCHA secret configured, a request whose
\* captchaToken is absent or empty after trimming is answered 400 whatever the
\* provider would answer, and a failed call to the provider ends in a rejection
\* without a call to the backend.
C4_CaptchaRequired ==
    (handler = "cors" /\ IsSet(env.RECAPTCHA_SECRET) /\ AtCaptchaStage) =>
        /\ Trim(OrElse(Get(req.params, CaptchaKey), <<>>)) = <<>> =>
               /\ backendCalls = 0
               /\ pc = "done" => res.status = 400
        /\ (captchaReply # None /\ captchaReply[1].kind # "json") =>
               /\ pc = "done"
               /\ res.type = "error"
               /\ backendCalls = 0

\* C5: verifyRecaptcha accepts without a call to the provider when no secret is
\* configured; with a secret it rejects when success is not true, rejects when a
\* score is present and below the configured minimum (0.5 by default), and accepts
\* otherwise (success true and the score absent or at or above the minimum).  A
\* rejection is answered 400 'Captcha failed' and the backend is not called.
C5_CaptchaVerdict ==
    handler = "cors" =>
        /\ ~IsSet(env.RECAPTCHA_SECRET) =>
               /\ captchaCalls = 0
               /\ res.error # "Captcha failed"
               /\ (pc # "start" /\ stage \notin {"preflight", "origin", "validation", "config"})
                      => backendCalls = 1
        /\ \A m \in MinScoreTexts :
               ( /\ IsSet(env.RECAPTCHA_SECRET)
                 /\ env.RECAPTCHA_MIN_SCORE = m.text
                 /\ m.tenths # None
                 /\ captchaReply # None
                 /\ captchaReply[1].kind = "json" ) =>
                   LET j      == captchaReply[1]
                       accept == /\ j.success = Some(TRUE)
                                 /\ j.score = None \/ j.score[1] >= m.tenths[1]
                   IN IF accept
                      THEN backendCalls = 1 /\ res.error # "Captcha failed"
                      ELSE /\ pc = "done"
                           /\ res = ErrorRes(400, "Captcha failed")
                           /\ backendCalls = 0

\* C5, reached: the provider reported success with a score below the minimum and the
\* request was answered 400 'Captcha failed'.
C5_Witness ==
    /\ handler = "cors"
    /\ captchaReply # None
    /\ captchaReply[1].success = Some(TRUE)
    /\ captchaReply[1].score # None
    /\ NumLess(captchaReply[1].score, MIN_SCORE(env))
    /\ res = ErrorRes(400, "Captcha failed")

\* The positions of the single quotes of s that no backslash escapes: those preceded
\* by an even number of consecutive backslashes.
RECURSIVE BackslashesBefore(_, _)
BackslashesBefore(s, i) ==
    IF i > 1 /\ s[i - 1] = "\\" THEN 1 + BackslashesBefore(s, i - 1) ELSE 0

UnescapedQuotes(s) ==
    { i \in 1..Len(s) : s[i] = "'" /\ BackslashesBefore(s, i) % 2 = 0 }

\* C7: the filter expression sent to the backend is email:'E' AND name:'O', with E the
\* email trimmed, lower-cased and its quotes escaped, and O the trimmed order without
\* one leading '#' and its quotes escaped; and the only single quotes in it that no
\* backslash escapes are the four delimiters.
C7_FilterExpression ==
    q # None =>
        LET E  == ReplaceAll(ToLowerCase(Trim(OrElse(Get(req.params, EmailKey), <<>>))),
                             "'", << "\\", "'" >>)
            o  == Trim(OrElse(Get(req.params, OrderKey), <<>>))
            O  == ReplaceAll(IF o # <<>> /\ o[1] = "#" THEN Tail(o) ELSE o,
                             "'", << "\\", "'" >>)
            d1 == 7
            d2 == d1 + Len(E) + 1
            d3 == d2 + 11
            d4 == d3 + Len(O) + 1
        IN /\ q[1] = << "e", "m", "a", "i", "l", ":", "'" >> \o E
                       \o << "'", " ", "A", "N", "D", " ", "n", "a", "m", "e", ":", "'" >>
                       \o O \o << "'" >>
           /\ UnescapedQuotes(q[1]) = {d1, d2, d3, d4}

\* C8: a request that passed every gate is answered 200 {found: false} exactly when
\* the backend call succeeded with zero matching orders; a failed backend call
\* (network error, HTTP status outside 2xx, errors or no data in the reply, a body
\* that is not JSON) is answered 500 {error}.
C8_NotFoundOnlyOnSuccess ==
    (pc = "done" /\ backendReply # None) =>
        LET r       == backendReply[1]
            success == /\ r.kind = "json"
                       /\ r.http >= 200 /\ r.http <= 299
                       /\ ~r.errors
                       /\ r.data # None
        IN /\ res = NotFoundRes <=> (success /\ r.data[1] = <<>>)
           /\ ~success => (res.status = 500 /\ res.type = "error")

\* The display status the specification describes: underscores to spaces, lower case,
\* then the first letter of every white-space-delimited word in upper case; 'Unknown'
\* for an absent or empty value.
ClaimDisplayStatus(raw) ==
    LET t == ToLowerCase(ReplaceAll(OrElse(raw, Unknown), "_", << " " >>)) IN
    [i \in 1..Len(t) |->
        IF ~IsSpace(t[i]) /\ (i = 1 \/ IsSpace(t[i - 1])) THEN ToUpperCh(t[i]) ELSE t[i]]

\* C9: in both handlers the displayStatus of a found order is the raw status with
\* underscores as spaces, in lower case, each word capitalised ('UNFULFILLED' gives
\* 'Unfulfilled', 'IN_TRANSIT' gives 'In Transit', absent or empty gives 'Unknown').
C9_DisplayStatus ==
    (pc = "done" /\ res.found) =>
        /\ res.displayStatus
             = ClaimDisplayStatus(FirstNode(backendReply[1])[1].displayFulfillmentStatus)
        /\ ClaimDisplayStatus(Some(Unfulfilled))
             = << "U", "n", "f", "u", "l", "f", "i", "l", "l", "e", "d" >>
        /\ ClaimDisplayStatus(Some(InTransit))
             = << "I", "n", " ", "T", "r", "a", "n", "s", "i", "t" >>
        /\ ClaimDisplayStatus(None) = << "U", "n", "k", "n", "o", "w", "n" >>

\* ---------------------------------------------- claims: canonical message

\* The values given for key k, in request order.
RECURSIVE ValuesOf(_, _)
ValuesOf(params, k) ==
    IF params = <<>> THEN <<>>
    ELSE IF Head(params)[1] = k THEN << Head(params)[2] >> \o ValuesOf(Tail(params), k)
    ELSE ValuesOf(Tail(params), k)

AllKeys(params) == { params[i][1] : i \in 1..Len(params) }

\* The message as the specification words it: the keys other than 'signature', each
\* once, ascending in the order Less, each followed by '=' and its values joined by
\* ',', with nothing between the pairs.
ClaimMessage(params, Less(_, _)) ==
    LET keys   == AllKeys(params) \ { SignatureKey }
        rank   == [k \in keys |-> 1 + Cardinality({ k2 \in keys : Less(k2, k) })]
        sorted == [i \in 1..Cardinality(keys) |-> CHOOSE k \in keys : rank[k] = i]
    IN Join([i \in 1..Len(sorted) |->
                sorted[i] \o << "=" >> \o Join(ValuesOf(params, sorted[i]), << "," >>)],
            <<>>)

Utf16Order(a, b) == SeqLess(Utf16Units(a), Utf16Units(b))
Utf8Order(a, b) == SeqLess(Utf8Bytes(a), Utf8Bytes(b))

\* The parameter lists that differ from params only in the order in which distinct
\* keys appear: each key keeps its values in their order.
Reorderings(params) ==
    LET n == Len(params) IN
    { [i \in 1..n |-> params[f[i]]] :
        f \in { g \in [1..n -> 1..n] : \A i, j \in 1..n : i # j => g[i] # g[j] } }

KeyOrderOnly(params) ==
    { l \in Reorderings(params) : \A k \in AllKeys(params) : ValuesOf(l, k) = ValuesOf(params, k) }

\* The parameter lists that differ from params in the value of one parameter other than
\* the signature.
OneValueChanged(params) ==
    { [params EXCEPT ![i] = << params[i][1], v >>] :
        i \in { j \in 1..Len(params) : params[j][1] # SignatureKey },
        v \in SigValues \cup { << "1", ",", "2" >> } }
      \ { params }

MessageProperties(Less(_, _)) ==
    (handler = "sig" /\ pc = "done") =>
        /\ message = Some(ClaimMessage(req.params, Less))
        /\ \A l \in KeyOrderOnly(req.params) : Some(CanonicalMessage(l)) = message
        /\ \A l \in OneValueChanged(req.params) : Some(CanonicalMessage(l)) # message

\* C3 as amended: the message is built from the parameters other than 'signature',
\* grouped by key, each key's values joined with ',' in request order, the keys sorted
\* ascending by UTF-16 code units (the order of Array.prototype.sort), the 'key=value'
\* pairs concatenated with nothing between them; it does not depend on the order in
\* which distinct keys appear, and changing one parameter value changes it.
C3_CanonicalMessage == MessageProperties(Utf16Order)

\* C3 as stated: the same, with the keys sorted ascending by byte value.
C3_SortedByByteValue == MessageProperties(Utf8Order)

\* C3, reached: two keys whose UTF-16 order and byte order differ, given in byte
\* order, come out in UTF-16 order.
C3_Witness ==
    /\ handler = "sig"
    /\ pc = "done"
    /\ req.params = << << << "uFF01" >>, << "1" >> >>, << << "u1F600" >>, << "2" >> >> >>
    /\ message = Some(<< "u1F600", "=", "2", "uFF01", "=", "1" >>)

\* ------------------------------------------------------ claims: stage order

CorsStages == << "origin", "validation", "config", "captcha", "backend" >>
ProxyStages == << "signature", "validation", "tenant", "config", "backend" >>
ProxyStagesTrustFirst == << "signature", "tenant", "validation", "config", "backend" >>

OrderAndEmailPresent ==
    /\ Trim(OrElse(Get(req.params, OrderKey), <<>>)) # <<>>
    /\ Trim(OrElse(Get(req.params, EmailKey), <<>>)) # <<>>

\* Whether the request passes the named stage, from the request, the configuration and
\* the replies that came; a stage whose reply has not come has not failed.
Passes(st) ==
    CASE st = "origin" -> Includes(ALLOWED(env), OrElse(req.origin, <<>>))
      [] st = "signature" ->
            VerifyProxySignature(req.params, OrElse(env.SHOPIFY_API_SECRET, <<>>)) = "true"
      [] st = "validation" -> OrderAndEmailPresent
      [] st = "tenant" ->
            \/ ~IsSet(env.SHOPIFY_SHOP)
            \/ OrElse(Get(req.params, ShopKey), <<>>) = env.SHOPIFY_SHOP[1]
      [] st = "config" ->
            /\ IsSet(env.SHOPIFY_ADMIN_API_ACCESS_TOKEN)
            /\ handler = "cors" => IsSet(env.SHOPIFY_SHOP)
      [] st = "captcha" ->
            \/ ~IsSet(env.RECAPTCHA_SECRET)
            \/ captchaReply = None
            \/ /\ captchaReply[1].kind = "json"
               /\ RecaptchaVerdict(captchaReply[1], MIN_SCORE(env))
      [] st = "backend" -> backendReply = None \/ backendReply[1].kind = "json"

\* The statuses with which a stage rejects.
FailureStatuses(st) ==
    CASE st \in {"origin", "tenant"} -> {403}
      [] st = "signature" -> {401, 500}
      [] st = "validation" -> {400}
      [] st = "captcha" -> {400, 500}
      [] st \in {"config", "backend"} -> {500}

StageOrder(stages) ==
    /\ sent <= 1 /\ captchaCalls <= 1 /\ backendCalls <= 1
    /\ sent = 1 <=> pc = "done"
    /\ pc \in {"start", "captcha", "backend", "done"}
    /\ pc = "captcha" => (handler = "cors" /\ captchaCalls = 1 /\ captchaReply = None)
    /\ pc = "backend" => (backendCalls = 1 /\ backendReply = None)
    /\ (pc = "done" /\ req.method # "OPTIONS") =>
           /\ \A i \in 1..Len(stages) :
                  (~Passes(stages[i]) /\ \A j \in 1..(i - 1) : Passes(stages[j])) =>
                      /\ stage = stages[i]
                      /\ res.type = "error"
                      /\ res.status \in FailureStatuses(stages[i])
           /\ (\A i \in 1..Len(stages) : Passes(stages[i])) =>
                  /\ stage = "projection"
                  /\ res.status = 200
    /\ captchaCalls = 1 => \A i \in 1..3 : Passes(stages[i])
    /\ backendCalls = 1 => \A i \in 1..4 : Passes(stages[i])

\* C10 as amended: every request gets exactly one response, and until then it has not
\* started or waits for the one call it made last; the CAPTCHA provider and
\* the backend are called at most once, the backend only when every earlier stage has
\* passed; the answer is the failure of the first failing stage, where the stages run
\* in the order origin, validation, configuration, CAPTCHA, backend in CORS mode and
\* signature, validation, tenant, configuration, backend in signed-proxy mode: a
\* request with a disallowed origin and a missing email is answered 403, one with a
\* disallowed tenant and a missing email is answered 400.
C10_StageOrder ==
    /\ handler = "cors" => StageOrder(CorsStages)
    /\ handler = "proxy" => StageOrder(ProxyStages)

\* C10 as stated: the trust checks (signature and tenant) come before input
\* validation, so a disallowed tenant with a missing email is answered 403.
C10_TrustBeforeValidation ==
    /\ handler = "cors" => StageOrder(CorsStages)
    /\ handler = "proxy" => StageOrder(ProxyStagesTrustFirst)

\* C10, reached: a correctly signed request with a disallowed tenant and no email was
\* answered 400 without a call to the backend.
C10_Witness ==
    /\ handler = "proxy"
    /\ pc = "done"
    /\ Passes("signature")
    /\ ~OrderAndEmailPresent
    /\ ~Passes("tenant")
    /\ res = ErrorRes(400, "Missing order or email")
    /\ backendCalls = 0

=============================================================================
